---- MODULE Spec2Model ----
(***************************************************************************)
(* A model of RunCache (run-cache 1.4.1): a process-local keyed cache with *)
(* optional TTL, source functions, refetch and expiry timers.              *)
(*                                                                         *)
(* The host is a single-threaded event loop.  One action of the model is   *)
(* one run-to-completion piece of code: a call up to its first await, the  *)
(* continuation of a call after the awaited source function settled, or a  *)
(* timer callback.                                                         *)
(*                                                                         *)
(* Optional values (`x?: T`) are sequences of length at most one: <<>> is  *)
(* undefined, <<v>> is the value v.                                        *)
(***************************************************************************)
EXTENDS Integers, Sequences, FiniteSets, TLC

VARIABLES
  now,          \* Date.now()
  cache,        \* RunCache.cache: a function from the keys present to their CacheState
  timers,       \* the armed setTimeout callbacks that have neither fired nor been cleared
  nextTimer,    \* the handle the next setTimeout returns
  calls,        \* the async calls suspended at `await sourceFn()`
  invocations,  \* per key, how many times a source function has been invoked for it
  emitted,      \* the events emitted by the last step, in emission order
  ret,          \* the call the last step returned from (or suspended), and its result
  burst,        \* the refetch calls issued back-to-back since the last other step
  history,      \* per key, what the client did to it last (a history variable)
  scope,        \* the bounds of this behaviour; never changes
  listeners,    \* RunCache.emitter: the registered callbacks, in subscription order
  delivered,    \* the listener invocations of the last step, in invocation order
  handlers      \* the invocations of async callbacks that have not completed yet

vars == <<now, cache, timers, nextTimer, calls, invocations, emitted, ret, burst,
          history, scope, listeners, delivered, handlers>>

----------------------------------------------------------------------------
(* Bounds of the model.  A behaviour runs in one of six scopes, fixed by Init:
   each scope bounds the client's inputs, the clock, the number of timers armed,
   the number of source-function invocations and the number of listeners. *)

FlightMaxTime == 1
FlightMaxInvocations == 3
ExpiryMaxTime == 3
ExpiryMaxTimers == 2
ExpiryMaxInvocations == 1
InputMaxTime == 1
InputMaxTimers == 1
InputMaxInvocations == 1
MaxBurst == 3
EventMaxTime == 2
EventMaxTimers == 1
EventMaxInvocations == 1
EventMaxListeners == 2
ClearMaxTime == 1
ClearMaxTimers == 1
ClearMaxInvocations == 1
ClearMaxListeners == 2
HandlerMaxTime == 2
HandlerMaxTimers == 1
HandlerMaxInvocations == 1
HandlerMaxListeners == 1
LiveMaxTime == 1
LiveMaxTimers == 1
LiveMaxInvocations == 2

Keys == {"k", "failure"}

\* concurrent refetches and sets of entries that have no ttl
FlightScope ==
  [name |-> "flight", keys |-> {"k"}, listenerKeys |-> {}, callbacks |-> {}, maxListeners |-> 0,
   clears |-> {},
   values |-> {<<>>, <<"v1">>}, ttls |-> {<<>>},
   sourceFns |-> {<<>>, <<"f">>}, autoRefetches |-> {<<>>, <<TRUE>>},
   maxTime |-> FlightMaxTime, maxTimers |-> 0,
   maxInvocations |-> FlightMaxInvocations]

\* entries with a ttl, their expiry timers and the refetches expiry triggers
ExpiryScope ==
  [name |-> "expiry", keys |-> {"k"}, listenerKeys |-> {}, callbacks |-> {}, maxListeners |-> 0,
   clears |-> {},
   values |-> {<<>>, <<"v1">>}, ttls |-> {<<>>, <<1>>},
   sourceFns |-> {<<>>, <<"f">>}, autoRefetches |-> {<<>>, <<TRUE>>},
   maxTime |-> ExpiryMaxTime, maxTimers |-> ExpiryMaxTimers,
   maxInvocations |-> ExpiryMaxInvocations]

\* every shape of argument, valid and invalid
InputScope ==
  [name |-> "input", keys |-> {"k", ""}, listenerKeys |-> {}, callbacks |-> {}, maxListeners |-> 0,
   clears |-> {},
   values |-> {<<>>, <<"">>, <<"v1">>, <<"v2">>},
   ttls |-> {<<>>, <<0 - 1>>, <<0>>, <<1>>},
   sourceFns |-> {<<>>, <<"f">>}, autoRefetches |-> {<<>>, <<TRUE>>},
   maxTime |-> InputMaxTime, maxTimers |-> InputMaxTimers,
   maxInvocations |-> InputMaxInvocations]

\* listeners, global and scoped to a key, and the events that reach them
EventScope ==
  [name |-> "event", keys |-> {"failure"},
   listenerKeys |-> {"", "k", "failure"}, callbacks |-> {"returns", "throws"},
   maxListeners |-> EventMaxListeners, clears |-> {},
   values |-> {<<"v1">>}, ttls |-> {<<1>>},
   sourceFns |-> {<<"f">>}, autoRefetches |-> {<<>>, <<TRUE>>},
   maxTime |-> EventMaxTime, maxTimers |-> EventMaxTimers,
   maxInvocations |-> EventMaxInvocations]

\* the arguments of clearEventListeners: <<>> is a call without argument,
\* <<p>> a call with the parameter object p
ClearParams ==
  {<<>>} \cup
  {<<[event |-> e, key |-> k]>> :
     e \in {<<>>, <<"expire">>, <<"refetch">>, <<"refetch-failure">>},
     k \in {<<>>, <<"">>, <<"k">>, <<"failure">>}}

\* listeners that return, and the ways of removing them
ClearScope ==
  [name |-> "clear", keys |-> {"failure"},
   listenerKeys |-> {"k", "failure"}, callbacks |-> {"returns"},
   maxListeners |-> ClearMaxListeners, clears |-> ClearParams,
   values |-> {<<"v1">>}, ttls |-> {<<1>>},
   sourceFns |-> {<<"f">>}, autoRefetches |-> {<<TRUE>>},
   maxTime |-> ClearMaxTime, maxTimers |-> ClearMaxTimers,
   maxInvocations |-> ClearMaxInvocations]

\* callbacks that are async functions
HandlerScope ==
  [name |-> "handler", keys |-> {"k"},
   listenerKeys |-> {"k"}, callbacks |-> {"returns", "async"},
   maxListeners |-> HandlerMaxListeners, clears |-> {},
   values |-> {<<"v1">>}, ttls |-> {<<1>>},
   sourceFns |-> {<<"f">>}, autoRefetches |-> {<<>>, <<TRUE>>},
   maxTime |-> HandlerMaxTime, maxTimers |-> HandlerMaxTimers,
   maxInvocations |-> HandlerMaxInvocations]

Scopes == {FlightScope, ExpiryScope, InputScope, EventScope, ClearScope, HandlerScope}

----------------------------------------------------------------------------
(* Values and helpers *)

Absent == "absent"          \* the object has no own property of that name
Undefined == "undefined"
Pending == "pending"        \* the promise the call returned has not settled

EXPIRE == "expire"
REFETCH == "refetch"
REFETCH_FAILURE == "refetch-failure"

\* JSON.stringify of a string: the text in double quotes
Stringify(v) == "\"" \o v \o "\""

\* what the n-th invocation of the source function for a key produces when it
\* does not fail (the tests use a fresh uuid() per invocation)
SourceValue(n) == "s" \o ToString(n)

\* JavaScript truthiness of an optional number / boolean
TruthyNum(t) == t # <<>> /\ t[1] # 0
TruthyBool(b) == b # <<>> /\ b[1]

\* Map.prototype.set and Map.prototype.delete on a function
MapSet(m, k, e) == [x \in (DOMAIN m) \cup {k} |-> IF x = k THEN e ELSE m[x]]
MapDelete(m, k) == [x \in (DOMAIN m) \ {k} |-> m[x]]

\* clearTimeout(handle): the timer, if still pending, never fires
ClearTimeout(ts, handle) == {t \in ts : <<t.id>> # handle}

\* RunCache.isExpired
isExpired(c) ==
  IF ~TruthyNum(c.ttl) THEN FALSE
  ELSE c.updateAt + c.ttl[1] < now

\* the payload RunCache.emitEvent passes, once to the global event id and
\* once to the key-scoped one
Event(event, key, value, ttl, createAt, updateAt) ==
  [event |-> event, key |-> key, value |-> value, ttl |-> ttl,
   createAt |-> createAt, updateAt |-> updateAt]

EntryEvent(event, key, c) ==
  Event(event, key, c.value, c.ttl, c.createAt, c.updateAt)

\* the event name a callback is registered under: the kind for a global
\* listener (key <<>>), `${kind}-${key}` for a listener scoped to a key
Channel(event, key) == IF key = <<>> THEN event ELSE event \o "-" \o key[1]

\* the callbacks a client registers: one that returns, one that throws, and an
\* async function, which returns a promise at once and completes in a later turn
Callbacks == {"returns", "throws", "async"}

\* a registered callback
Listener(event, key, callback) ==
  [kind |-> event, key |-> key, channel |-> Channel(event, key),
   throws |-> callback = "throws", async |-> callback = "async"]

\* emitter.emit(ch, ...): the positions of the callbacks registered under ch,
\* in subscription order
OnChannel(ch) ==
  SelectSeq([i \in 1..Len(listeners) |-> i], LAMBDA i : listeners[i].channel = ch)

\* Invoked reaching the callbacks of the suffixed event id first
InvokedKeyFirst(event, key) == OnChannel(event \o "-" \o key) \o OnChannel(event)

\* the callbacks emitEvent reaches: those of the event id, then those of the
\* event id suffixed with the key
Invoked(event, key) == OnChannel(event) \o OnChannel(event \o "-" \o key)

\* the place in s of the first callback that throws, 0 when none does
FirstThrow(s) ==
  IF \E j \in 1..Len(s) : listeners[s[j]].throws
  THEN CHOOSE j \in 1..Len(s) :
         /\ listeners[s[j]].throws
         /\ \A h \in 1..(j - 1) : ~listeners[s[h]].throws
  ELSE 0

\* emitEvent raises what a callback throws: the callbacks after it are not called
EmitThrows(event, key) == FirstThrow(Invoked(event, key)) # 0

Called(event, key) ==
  LET s == Invoked(event, key)
      j == FirstThrow(s)
  IN IF j = 0 THEN s ELSE SubSeq(s, 1, j)

\* the invocations emitEvent makes for the payload e: which callback, with what
\* saw: the entry the store holds under the key of the event while the callback runs
DeliveriesAt(e, store) ==
  LET s == Called(e.event, e.key)
  IN [j \in 1..Len(s) |->
        [pos |-> s[j], to |-> listeners[s[j]], event |-> e,
         saw |-> IF e.key \in DOMAIN store THEN <<store[e.key]>> ELSE <<>>]]

\* emitEvent called before the step has written to the store
Deliveries(e) == DeliveriesAt(e, cache)

\* the promises the async callbacks among the invocations d returned: emit
\* drops them, so nothing waits for them
Begun(d) ==
  {[to |-> d[j].to, event |-> d[j].event] : j \in {i \in 1..Len(d) : d[i].to.async}}

\* what the client observes of a step: the call, its key, the literal value it
\* was given (set), whether the key was in the store when the step began, and
\* the result; source: whether the source function the step resumed after
\* returned (<<TRUE>>) or threw (<<FALSE>>)
Ret(op, key, arg, val) ==
  [op |-> op, key |-> key, arg |-> arg, hit |-> key \in DOMAIN cache,
   prior |-> IF key \in DOMAIN cache THEN <<cache[key].createAt>> ELSE <<>>,
   val |-> val, source |-> <<>>]

Resumed(op, key, val, ok) == [Ret(op, key, "", val) EXCEPT !.source = <<ok>>]

NoBurst == [key |-> "", n |-> 0, started |-> 0, falses |-> 0, idle |-> FALSE]

\* history of a key: standing = the last set that wrote it asked for ttl,
\* sourceFn and autoRefetch, and it was not deleted or flushed since;
\* removed = a get removed it as expired, and set was not called on it since
NoHistory == [standing |-> FALSE, removed |-> FALSE]

Note(key, field, b) ==
  IF key \in DOMAIN history
  THEN [history EXCEPT ![key] = [@ EXCEPT ![field] = b]]
  ELSE history

\* the source-function invocations for key k that have not settled yet
Outstanding(k) == {c \in calls : c.key = k}

----------------------------------------------------------------------------
Init ==
  /\ scope \in Scopes
  /\ now = 0
  /\ cache = <<>>
  /\ timers = {}
  /\ nextTimer = 1
  /\ calls = {}
  /\ invocations = [k \in Keys |-> 0]
  /\ emitted = <<>>
  /\ ret = [op |-> "init", key |-> "", arg |-> "", hit |-> FALSE, prior |-> <<>>,
            val |-> Undefined, source |-> <<>>]
  /\ burst = NoBurst
  /\ history = [k \in Keys |-> NoHistory]
  /\ listeners = <<>>
  /\ delivered = <<>>
  /\ handlers = {}

\* wall-clock time passes
Tick ==
  /\ now < scope.maxTime
  /\ now' = now + 1
  /\ emitted' = <<>>
  /\ ret' = Ret("tick", "", "", Undefined)
  /\ burst' = NoBurst
  /\ delivered' = <<>>
  /\ UNCHANGED <<cache, timers, nextTimer, calls, invocations, history, scope, handlers,
                 listeners>>

----------------------------------------------------------------------------
(* set *)

EmptyKeyError == "Error: Empty key"
EmptyValueError == "Error: value cannot be empty without a sourceFn"
AutoRefetchError == "Error: autoRefetch is not allowed without a ttl"
NegativeTtlError == "Error: Value ttl cannot be negative"
SourceFnError == "Error: Source function failed for key"

\* what a callback that throws throws, and what becomes of it in a timer callback
ListenerError == "Error thrown by a listener"
Uncaught == "uncaught exception"

\* SetValidation without the rule that autoRefetch needs a ttl
SetValidationNoTtlRule(key, value, ttl, sourceFn, autoRefetch) ==
  IF key = "" THEN EmptyKeyError
  ELSE IF sourceFn = <<>> /\ (value = <<>> \/ value[1] = "") THEN EmptyValueError
  ELSE Undefined

\* the three checks at the top of set, in order; Undefined when all pass
SetValidation(key, value, ttl, sourceFn, autoRefetch) ==
  IF key = "" THEN EmptyKeyError
  ELSE IF sourceFn = <<>> /\ (value = <<>> \/ value[1] = "") THEN EmptyValueError
  ELSE IF TruthyBool(autoRefetch) /\ ~TruthyNum(ttl) THEN AutoRefetchError
  ELSE Undefined

\* the closure passed to setTimeout by set: it keeps the parameters of the call
Timer(id, key, value, ttl, sourceFn, autoRefetch, time) ==
  [id |-> id, key |-> key, fireAt |-> time + ttl[1],
   value |-> Stringify(IF value = <<>> THEN "" ELSE value[1]),
   ttl |-> ttl, time |-> time,
   refetches |-> sourceFn # <<>> /\ TruthyBool(autoRefetch)]

\* SetEntry storing the value as given instead of JSON.stringify(value)
SetEntryUnserialized(v, ttl, sourceFn, autoRefetch, timeout, time) ==
  [value |-> v, ttl |-> ttl, sourceFn |-> sourceFn,
   autoRefetch |-> autoRefetch, timeout |-> timeout,
   createAt |-> time, updateAt |-> time, fetching |-> Absent]

\* SetEntry storing no source function
SetEntryForgetsSource(v, ttl, sourceFn, autoRefetch, timeout, time) ==
  [value |-> Stringify(v), ttl |-> ttl, sourceFn |-> <<>>,
   autoRefetch |-> autoRefetch, timeout |-> timeout,
   createAt |-> time, updateAt |-> time, fetching |-> Absent]

\* the object set stores with RunCache.cache.set(key, {...})
SetEntry(v, ttl, sourceFn, autoRefetch, timeout, time) ==
  [value |-> Stringify(v), ttl |-> ttl, sourceFn |-> sourceFn,
   autoRefetch |-> autoRefetch, timeout |-> timeout,
   createAt |-> time, updateAt |-> time, fetching |-> Absent]

\* whether an entry written by set carries the auto-refetch policy
Standing(e) == TruthyNum(e.ttl) /\ e.sourceFn # <<>> /\ TruthyBool(e.autoRefetch)

\* RunCache.set up to its return or to `await sourceFn()`
Set(key, value, ttl, sourceFn, autoRefetch) ==
  LET invalid == SetValidation(key, value, ttl, sourceFn, autoRefetch)
      time == now
      existing == IF key \in DOMAIN cache THEN cache[key].timeout ELSE <<>>
      cleared == ClearTimeout(timers, existing)
      timeout == IF ttl # <<>> THEN <<nextTimer>> ELSE <<>>
      armed == IF ttl # <<>>
               THEN cleared \cup {Timer(nextTimer, key, value, ttl, sourceFn, autoRefetch, time)}
               ELSE cleared
      inv == invocations[key] + 1
      entry == SetEntry(IF value = <<>> THEN "" ELSE value[1],
                        ttl, sourceFn, autoRefetch, timeout, time)
  IN
  /\ emitted' = <<>>
  /\ delivered' = <<>>
  /\ burst' = NoBurst
  /\ UNCHANGED <<now, scope, handlers, listeners>>
  /\ IF invalid # Undefined
     THEN /\ ret' = Ret("set", key, "", invalid)
          /\ UNCHANGED <<cache, timers, nextTimer, calls, invocations, history>>
     ELSE IF ttl # <<>> /\ ttl[1] < 0
     THEN /\ timers' = cleared
          /\ ret' = Ret("set", key, "", NegativeTtlError)
          /\ UNCHANGED <<cache, nextTimer, calls, invocations, history>>
     ELSE /\ ttl # <<>> => nextTimer <= scope.maxTimers
          /\ timers' = armed
          /\ nextTimer' = IF ttl # <<>> THEN nextTimer + 1 ELSE nextTimer
          /\ IF value = <<>> /\ sourceFn # <<>>
             THEN /\ invocations[key] < scope.maxInvocations
                  /\ invocations' = [invocations EXCEPT ![key] = inv]
                  /\ calls' = calls \cup
                       {[op |-> "set", key |-> key, inv |-> inv, caller |-> "user",
                         frame |-> entry]}
                  /\ ret' = Ret("set", key, "", Pending)
                  /\ history' = Note(key, "removed", FALSE)
                  /\ UNCHANGED cache
             ELSE /\ cache' = MapSet(cache, key, entry)
                  /\ ret' = Ret("set", key, value[1], "true")
                  /\ history' = [history EXCEPT ![key] =
                                   [standing |-> Standing(entry), removed |-> FALSE]]
                  /\ UNCHANGED <<calls, invocations>>

\* RunCache.set after `await sourceFn()`: the source function returned (ok) or threw
SetSettle(c, ok) ==
  /\ c \in calls
  /\ c.op = "set"
  /\ calls' = calls \ {c}
  /\ emitted' = <<>>
  /\ burst' = NoBurst
  /\ IF ok
     THEN /\ cache' = MapSet(cache, c.key,
               [c.frame EXCEPT !.value = Stringify(SourceValue(c.inv))])
          /\ ret' = Resumed("set", c.key, "true", ok)
          /\ history' = [history EXCEPT ![c.key] =
                           [standing |-> Standing(c.frame), removed |-> FALSE]]
     ELSE /\ ret' = Resumed("set", c.key, SourceFnError, ok)
          /\ UNCHANGED <<cache, history>>
  /\ delivered' = <<>>
  /\ UNCHANGED <<now, timers, nextTimer, invocations, scope, handlers, listeners>>

----------------------------------------------------------------------------
(* refetch *)

\* the object literal { fetching: f, ...cached }: the spread comes second, so an
\* own property `fetching` of cached, even one holding undefined, wins over f
SpreadFetching(f, cached) ==
  [cached EXCEPT !.fetching = IF cached.fetching = Absent THEN f ELSE cached.fetching]

\* RefetchedEntry keeping the updateAt of the entry it replaces
RefetchedEntryStale(cached, v) ==
  [value |-> Stringify(v), ttl |-> cached.ttl, sourceFn |-> cached.sourceFn,
   autoRefetch |-> <<>>, timeout |-> <<>>,
   createAt |-> cached.createAt, updateAt |-> cached.updateAt, fetching |-> Undefined]

\* refetchedCache, stored as { fetching: undefined, ...refetchedCache }
RefetchedEntry(cached, v) ==
  [value |-> Stringify(v), ttl |-> cached.ttl, sourceFn |-> cached.sourceFn,
   autoRefetch |-> <<>>, timeout |-> <<>>,
   createAt |-> cached.createAt, updateAt |-> now, fetching |-> Undefined]

\* the three early returns of refetch
RefetchRefuses(key) ==
  \/ key \notin DOMAIN cache
  \/ cache[key].sourceFn = <<>>
  \/ cache[key].fetching = "true"

\* refetch from `try {` to `await cached.sourceFn()`, on behalf of caller
RefetchBegin(key, caller) ==
  LET cached == cache[key]
      inv == invocations[key] + 1
  IN
  /\ invocations[key] < scope.maxInvocations
  /\ cache' = MapSet(cache, key, SpreadFetching("true", cached))
  /\ invocations' = [invocations EXCEPT ![key] = inv]
  /\ calls' = calls \cup
       {[op |-> "refetch", key |-> key, inv |-> inv, caller |-> caller, frame |-> cached]}

\* RunCache.refetch called by the client, up to its return or to the await
Refetch(key) ==
  /\ burst.key = key => burst.n < MaxBurst
  /\ emitted' = <<>>
  /\ IF RefetchRefuses(key)
     THEN /\ ret' = Ret("refetch", key, "", "false")
          /\ UNCHANGED <<cache, calls, invocations>>
     ELSE /\ RefetchBegin(key, "user")
          /\ ret' = Ret("refetch", key, "", Pending)
  /\ burst' =
       LET b == IF burst.key = key /\ burst.n > 0 THEN burst
                ELSE [NoBurst EXCEPT !.key = key,
                        !.idle = /\ key \in DOMAIN cache
                                 /\ cache[key].sourceFn # <<>>
                                 /\ Outstanding(key) = {}]
       IN [b EXCEPT !.n = @ + 1,
                    !.started = IF RefetchRefuses(key) THEN @ ELSE @ + 1,
                    !.falses = IF RefetchRefuses(key) THEN @ + 1 ELSE @]
  /\ delivered' = <<>>
  /\ UNCHANGED <<now, timers, nextTimer, history, scope, handlers, listeners>>

\* RefetchSettle whose catch block does not write the snapshot back
RefetchSettleNoRestore(c, ok) ==
  LET cached == c.frame
      refetched == RefetchedEntry(cached, SourceValue(c.inv))
      op == IF c.caller = "user" THEN "refetch" ELSE c.caller
      good == EntryEvent(REFETCH, c.key, refetched)
      bad == EntryEvent(REFETCH_FAILURE, c.key, cached)
      tried == IF ok THEN <<good>> ELSE <<>>
      raised == IF EmitThrows(REFETCH_FAILURE, c.key) THEN ListenerError ELSE SourceFnError
  IN
  /\ c \in calls
  /\ c.op = "refetch"
  /\ calls' = calls \ {c}
  /\ burst' = NoBurst
  /\ IF ok /\ ~EmitThrows(REFETCH, c.key)
     THEN /\ emitted' = <<good>>
          /\ delivered' = Deliveries(good)
          /\ cache' = MapSet(cache, c.key, refetched)
          /\ ret' = Resumed(op, c.key,
                            IF c.caller = "get" THEN refetched.value ELSE "true", ok)
     ELSE /\ UNCHANGED cache
          /\ emitted' = tried \o <<bad>>
          /\ delivered' = (IF ok THEN Deliveries(good) ELSE <<>>) \o Deliveries(bad)
          /\ ret' = Resumed(op, c.key,
                            IF c.caller = "timer" THEN "caught" ELSE raised, ok)
  /\ handlers' = handlers \cup Begun(delivered')
  /\ UNCHANGED <<now, timers, nextTimer, invocations, history, scope, listeners>>

\* RefetchSettle storing the refetched entry with the fetching flag still set
RefetchSettleStaysFetching(c, ok) ==
  LET cached == c.frame
      refetched == RefetchedEntry(cached, SourceValue(c.inv))
      op == IF c.caller = "user" THEN "refetch" ELSE c.caller
      good == EntryEvent(REFETCH, c.key, refetched)
      bad == EntryEvent(REFETCH_FAILURE, c.key, cached)
      tried == IF ok THEN <<good>> ELSE <<>>
      raised == IF EmitThrows(REFETCH_FAILURE, c.key) THEN ListenerError ELSE SourceFnError
  IN
  /\ c \in calls
  /\ c.op = "refetch"
  /\ calls' = calls \ {c}
  /\ burst' = NoBurst
  /\ IF ok /\ ~EmitThrows(REFETCH, c.key)
     THEN /\ emitted' = <<good>>
          /\ delivered' = Deliveries(good)
          /\ cache' = MapSet(cache, c.key, [refetched EXCEPT !.fetching = "true"])
          /\ ret' = Resumed(op, c.key,
                            IF c.caller = "get" THEN refetched.value ELSE "true", ok)
     ELSE /\ cache' = MapSet(cache, c.key, SpreadFetching(Undefined, cached))
          /\ emitted' = tried \o <<bad>>
          /\ delivered' = (IF ok THEN Deliveries(good) ELSE <<>>) \o
                          DeliveriesAt(bad, MapSet(cache, c.key,
                                                   SpreadFetching(Undefined, cached)))
          /\ ret' = Resumed(op, c.key,
                            IF c.caller = "timer" THEN "caught" ELSE raised, ok)
  /\ handlers' = handlers \cup Begun(delivered')
  /\ UNCHANGED <<now, timers, nextTimer, invocations, history, scope, listeners>>

\* refetch after `await cached.sourceFn()`: the source function returned (ok) or
\* threw.  The refetch event is emitted inside the try block, so a refetch
\* callback that throws lands in the catch block like a failed source function;
\* what a refetch-failure callback throws leaves refetch instead of its own error.
\* A refetch awaited by get is followed by the rest of get.
RefetchSettle(c, ok) ==
  LET cached == c.frame
      refetched == RefetchedEntry(cached, SourceValue(c.inv))
      op == IF c.caller = "user" THEN "refetch" ELSE c.caller
      good == EntryEvent(REFETCH, c.key, refetched)
      bad == EntryEvent(REFETCH_FAILURE, c.key, cached)
      tried == IF ok THEN <<good>> ELSE <<>>
      raised == IF EmitThrows(REFETCH_FAILURE, c.key) THEN ListenerError ELSE SourceFnError
  IN
  /\ c \in calls
  /\ c.op = "refetch"
  /\ calls' = calls \ {c}
  /\ burst' = NoBurst
  /\ IF ok /\ ~EmitThrows(REFETCH, c.key)
     THEN /\ emitted' = <<good>>
          /\ delivered' = Deliveries(good)
          /\ cache' = MapSet(cache, c.key, refetched)
          /\ ret' = Resumed(op, c.key,
                            IF c.caller = "get" THEN refetched.value ELSE "true", ok)
     ELSE /\ cache' = MapSet(cache, c.key, SpreadFetching(Undefined, cached))
          /\ emitted' = tried \o <<bad>>
          /\ delivered' = (IF ok THEN Deliveries(good) ELSE <<>>) \o
                          DeliveriesAt(bad, MapSet(cache, c.key,
                                                   SpreadFetching(Undefined, cached)))
          /\ ret' = Resumed(op, c.key,
                            IF c.caller = "timer" THEN "caught" ELSE raised, ok)
  /\ handlers' = handlers \cup Begun(delivered')
  /\ UNCHANGED <<now, timers, nextTimer, invocations, history, scope, listeners>>

----------------------------------------------------------------------------
(* get, has, delete, flush *)

\* what RunCache.get resolves to when the callbacks it reaches return, or
\* Pending when it awaits a source function.
\* When the refetch get awaits refuses, its false resolves within the same turn
\* of the event loop, so get reads the store before a source function that
\* takes time has settled.
GetResult(key) ==
  IF key = "" \/ key \notin DOMAIN cache THEN Undefined
  ELSE IF ~isExpired(cache[key]) THEN cache[key].value
  ELSE IF cache[key].sourceFn = <<>> \/ ~TruthyBool(cache[key].autoRefetch) THEN Undefined
  ELSE IF RefetchRefuses(key) THEN cache[key].value
  ELSE Pending

\* RunCache.get, up to its return or to the await inside the refetch it calls
Get(key) ==
  /\ burst' = NoBurst
  /\ IF key = "" \/ key \notin DOMAIN cache
     THEN /\ emitted' = <<>>
          /\ delivered' = <<>>
          /\ ret' = Ret("get", key, "", Undefined)
          /\ UNCHANGED <<cache, calls, invocations, history>>
     ELSE IF ~isExpired(cache[key])
     THEN /\ emitted' = <<>>
          /\ delivered' = <<>>
          /\ ret' = Ret("get", key, "", cache[key].value)
          /\ UNCHANGED <<cache, calls, invocations, history>>
     ELSE /\ emitted' = <<EntryEvent(EXPIRE, key, cache[key])>>
          /\ delivered' = Deliveries(EntryEvent(EXPIRE, key, cache[key]))
          /\ IF EmitThrows(EXPIRE, key)
             THEN /\ ret' = Ret("get", key, "", ListenerError)
                  /\ UNCHANGED <<cache, calls, invocations, history>>
             ELSE /\ ret' = Ret("get", key, "", GetResult(key))
                  /\ IF cache[key].sourceFn = <<>> \/ ~TruthyBool(cache[key].autoRefetch)
                     THEN /\ cache' = MapDelete(cache, key)
                          /\ history' = Note(key, "removed", TRUE)
                          /\ UNCHANGED <<calls, invocations>>
                     ELSE IF RefetchRefuses(key)
                     THEN UNCHANGED <<cache, calls, invocations, history>>
                     ELSE /\ RefetchBegin(key, "get")
                          /\ UNCHANGED history
  /\ handlers' = handlers \cup Begun(delivered')
  /\ UNCHANGED <<now, timers, nextTimer, scope, listeners>>

\* what RunCache.has resolves to when the callbacks it reaches return
HasResult(key) ==
  IF key \notin DOMAIN cache THEN "false"
  ELSE IF isExpired(cache[key]) THEN "false"
  ELSE "true"

\* Has removing the expired entry it finds, as get does
HasRemovesExpired(key) ==
  LET expired == key \in DOMAIN cache /\ isExpired(cache[key])
  IN
  /\ burst' = NoBurst
  /\ ret' = Ret("has", key, "",
                IF expired /\ EmitThrows(EXPIRE, key) THEN ListenerError
                ELSE HasResult(key))
  /\ emitted' = IF expired THEN <<EntryEvent(EXPIRE, key, cache[key])>> ELSE <<>>
  /\ delivered' = IF expired THEN Deliveries(EntryEvent(EXPIRE, key, cache[key]))
                  ELSE <<>>
  /\ cache' = IF expired THEN MapDelete(cache, key) ELSE cache
  /\ handlers' = handlers \cup Begun(delivered')
  /\ UNCHANGED <<now, timers, nextTimer, calls, invocations, history, scope,
                 listeners>>

\* RunCache.has
Has(key) ==
  LET expired == key \in DOMAIN cache /\ isExpired(cache[key])
  IN
  /\ burst' = NoBurst
  /\ ret' = Ret("has", key, "",
                IF expired /\ EmitThrows(EXPIRE, key) THEN ListenerError
                ELSE HasResult(key))
  /\ emitted' = IF expired THEN <<EntryEvent(EXPIRE, key, cache[key])>> ELSE <<>>
  /\ delivered' = IF expired THEN Deliveries(EntryEvent(EXPIRE, key, cache[key]))
                  ELSE <<>>
  /\ handlers' = handlers \cup Begun(delivered')
  /\ UNCHANGED <<now, cache, timers, nextTimer, calls, invocations, history, scope,
                 listeners>>

\* Delete returning what Map.delete returns only after clearing every timer of
\* the key, whether or not an entry exists
DeleteClearsFirst(key) ==
  /\ burst' = NoBurst
  /\ emitted' = <<>>
  /\ delivered' = <<>>
  /\ timers' = {t \in timers : t.key # key}
  /\ IF key \notin DOMAIN cache
     THEN /\ ret' = Ret("delete", key, "", "false")
          /\ UNCHANGED <<cache, history>>
     ELSE /\ cache' = MapDelete(cache, key)
          /\ ret' = Ret("delete", key, "", "true")
          /\ history' = Note(key, "standing", FALSE)
  /\ UNCHANGED <<now, nextTimer, calls, invocations, scope, handlers, listeners>>

\* RunCache.delete
Delete(key) ==
  /\ burst' = NoBurst
  /\ emitted' = <<>>
  /\ delivered' = <<>>
  /\ IF key \notin DOMAIN cache
     THEN /\ ret' = Ret("delete", key, "", "false")
          /\ UNCHANGED <<cache, timers, history>>
     ELSE /\ timers' = ClearTimeout(timers, cache[key].timeout)
          /\ cache' = MapDelete(cache, key)
          /\ ret' = Ret("delete", key, "", "true")
          /\ history' = Note(key, "standing", FALSE)
  /\ UNCHANGED <<now, nextTimer, calls, invocations, scope, handlers, listeners>>

\* RunCache.flush
Flush ==
  /\ burst' = NoBurst
  /\ emitted' = <<>>
  /\ delivered' = <<>>
  /\ timers' = {t \in timers : \A k \in DOMAIN cache : <<t.id>> # cache[k].timeout}
  /\ cache' = <<>>
  /\ ret' = Ret("flush", "", "", Undefined)
  /\ history' = [k \in DOMAIN history |-> [history[k] EXCEPT !.standing = FALSE]]
  /\ UNCHANGED <<now, nextTimer, calls, invocations, scope, handlers, listeners>>

----------------------------------------------------------------------------
(* the expiry timer *)

\* TimerFire awaiting nothing and refetching nothing: it only emits
TimerFireOnlyEmits(t) ==
  LET e == Event(EXPIRE, t.key, t.value, t.ttl, t.time, t.time)
  IN
  /\ t \in timers
  /\ now >= t.fireAt
  /\ timers' = timers \ {t}
  /\ burst' = NoBurst
  /\ emitted' = <<e>>
  /\ delivered' = Deliveries(e)
  /\ ret' = Ret("timer", t.key, "", IF EmitThrows(EXPIRE, t.key) THEN Uncaught ELSE Undefined)
  /\ UNCHANGED <<cache, calls, invocations>>
  /\ handlers' = handlers \cup Begun(delivered')
  /\ UNCHANGED <<now, nextTimer, history, scope, listeners>>

\* TimerFire calling refetch before it emits the expire event
TimerFireRefetchFirst(t) ==
  LET e == Event(EXPIRE, t.key, t.value, t.ttl, t.time, t.time)
  IN
  /\ t \in timers
  /\ now >= t.fireAt
  /\ timers' = timers \ {t}
  /\ burst' = NoBurst
  /\ emitted' = <<e>>
  /\ delivered' = Deliveries(e)
  /\ ret' = Ret("timer", t.key, "", IF EmitThrows(EXPIRE, t.key) THEN Uncaught ELSE Undefined)
  /\ IF t.refetches /\ ~RefetchRefuses(t.key)
     THEN RefetchBegin(t.key, "timer")
     ELSE UNCHANGED <<cache, calls, invocations>>
  /\ handlers' = handlers \cup Begun(delivered')
  /\ UNCHANGED <<now, nextTimer, history, scope, listeners>>

\* the callback set passed to setTimeout runs: the timer is due and was not
\* cleared.  What an expire callback throws leaves the timer callback before
\* it calls refetch.
TimerFire(t) ==
  LET e == Event(EXPIRE, t.key, t.value, t.ttl, t.time, t.time)
  IN
  /\ t \in timers
  /\ now >= t.fireAt
  /\ timers' = timers \ {t}
  /\ burst' = NoBurst
  /\ emitted' = <<e>>
  /\ delivered' = Deliveries(e)
  /\ IF EmitThrows(EXPIRE, t.key)
     THEN /\ ret' = Ret("timer", t.key, "", Uncaught)
          /\ UNCHANGED <<cache, calls, invocations>>
     ELSE /\ ret' = Ret("timer", t.key, "", Undefined)
          /\ IF t.refetches /\ ~RefetchRefuses(t.key)
             THEN RefetchBegin(t.key, "timer")
             ELSE UNCHANGED <<cache, calls, invocations>>
  /\ handlers' = handlers \cup Begun(delivered')
  /\ UNCHANGED <<now, nextTimer, history, scope, listeners>>

----------------------------------------------------------------------------
(* listeners *)

\* RunCache.emitter.on(channel, callback), after the check of the key that the
\* registrations scoped to a key make
On(event, key, callback) ==
  /\ burst' = NoBurst
  /\ emitted' = <<>>
  /\ delivered' = <<>>
  /\ IF key = <<"">>
     THEN /\ ret' = Ret("on", "", "", EmptyKeyError)
          /\ UNCHANGED listeners
     ELSE /\ Len(listeners) < scope.maxListeners
          /\ listeners' = Append(listeners, Listener(event, key, callback))
          /\ ret' = Ret("on", IF key = <<>> THEN "" ELSE key[1], "", Undefined)
  /\ UNCHANGED <<now, cache, timers, nextTimer, calls, invocations, history, scope, handlers>>

onExpiry(callback) == On(EXPIRE, <<>>, callback)
onKeyExpiry(key, callback) == On(EXPIRE, <<key>>, callback)
onRefetch(callback) == On(REFETCH, <<>>, callback)
onKeyRefetch(key, callback) == On(REFETCH, <<key>>, callback)
onRefetchFailure(callback) == On(REFETCH_FAILURE, <<>>, callback)
onKeyRefetchFailure(key, callback) == On(REFETCH_FAILURE, <<key>>, callback)

\* the promise an async callback returned settles, in a turn of its own
HandlerSettle(h) ==
  /\ h \in handlers
  /\ handlers' = handlers \ {h}
  /\ burst' = NoBurst
  /\ emitted' = <<>>
  /\ delivered' = <<>>
  /\ ret' = Ret("handler", h.event.key, "", Undefined)
  /\ UNCHANGED <<now, cache, timers, nextTimer, calls, invocations, history, scope,
                 listeners>>

KeyWithoutEventError == "Error: key cannot be provided without event"

\* JavaScript truthiness of an optional string
TruthyStr(x) == x # <<>> /\ x[1] # ""

\* String.prototype.startsWith
StartsWith(s, prefix) == Len(s) >= Len(prefix) /\ SubSeq(s, 1, Len(prefix)) = prefix

\* emitter.removeAllListeners(eventName)
RemoveAllListeners(ls, eventName) == SelectSeq(ls, LAMBDA l : l.channel # eventName)

\* the argument of a clearEventListeners call as text, for ret
ClearArg(params) ==
  IF params = <<>> THEN "()"
  ELSE "({" \o (IF params[1].event = <<>> THEN "" ELSE "event: " \o params[1].event[1])
            \o (IF params[1].key = <<>> THEN "" ELSE " key: " \o params[1].key[1])
            \o "})"

\* clearEventListeners leaving the listeners registered under a bare event
\* kind in place when it is called without argument
clearEventListenersScopedOnly(params) ==
  LET byKind == RemoveAllListeners(listeners, params[1].event[1])
      left ==
        IF params = <<>> THEN SelectSeq(listeners, LAMBDA l : l.key = <<>>)
        ELSE IF TruthyStr(params[1].key) /\ ~TruthyStr(params[1].event) THEN listeners
        ELSE IF TruthyStr(params[1].event) /\ TruthyStr(params[1].key)
        THEN RemoveAllListeners(listeners, params[1].event[1] \o "-" \o params[1].key[1])
        ELSE IF TruthyStr(params[1].event)
        THEN SelectSeq(byKind, LAMBDA l : ~StartsWith(l.channel, params[1].event[1]))
        ELSE listeners
      val ==
        IF params = <<>> THEN "true"
        ELSE IF TruthyStr(params[1].key) /\ ~TruthyStr(params[1].event)
        THEN KeyWithoutEventError
        ELSE IF TruthyStr(params[1].event) THEN "true"
        ELSE "false"
  IN
  /\ burst' = NoBurst
  /\ emitted' = <<>>
  /\ delivered' = <<>>
  /\ listeners' = left
  /\ ret' = [Ret("clearEventListeners", "", ClearArg(params), val)
               EXCEPT !.hit = left # listeners]
  /\ UNCHANGED <<now, cache, timers, nextTimer, calls, invocations, history, scope,
                 handlers>>

\* clearEventListeners without the check of a key given without an event
clearEventListenersUnchecked(params) ==
  LET byKind == RemoveAllListeners(listeners, params[1].event[1])
      left ==
        IF params = <<>> THEN <<>>
        ELSE IF TruthyStr(params[1].key) /\ ~TruthyStr(params[1].event) THEN listeners
        ELSE IF TruthyStr(params[1].event) /\ TruthyStr(params[1].key)
        THEN RemoveAllListeners(listeners, params[1].event[1] \o "-" \o params[1].key[1])
        ELSE IF TruthyStr(params[1].event)
        THEN SelectSeq(byKind, LAMBDA l : ~StartsWith(l.channel, params[1].event[1]))
        ELSE listeners
      val ==
        IF params = <<>> THEN "true"
        ELSE IF TruthyStr(params[1].event) THEN "true"
        ELSE "false"
  IN
  /\ burst' = NoBurst
  /\ emitted' = <<>>
  /\ delivered' = <<>>
  /\ listeners' = left
  /\ ret' = [Ret("clearEventListeners", "", ClearArg(params), val)
               EXCEPT !.hit = left # listeners]
  /\ UNCHANGED <<now, cache, timers, nextTimer, calls, invocations, history, scope,
                 handlers>>

\* RunCache.clearEventListeners; ret.hit: whether the call removed a listener
clearEventListeners(params) ==
  LET byKind == RemoveAllListeners(listeners, params[1].event[1])
      left ==
        IF params = <<>> THEN <<>>
        ELSE IF TruthyStr(params[1].key) /\ ~TruthyStr(params[1].event) THEN listeners
        ELSE IF TruthyStr(params[1].event) /\ TruthyStr(params[1].key)
        THEN RemoveAllListeners(listeners, params[1].event[1] \o "-" \o params[1].key[1])
        ELSE IF TruthyStr(params[1].event)
        THEN SelectSeq(byKind, LAMBDA l : ~StartsWith(l.channel, params[1].event[1]))
        ELSE listeners
      val ==
        IF params = <<>> THEN "true"
        ELSE IF TruthyStr(params[1].key) /\ ~TruthyStr(params[1].event)
        THEN KeyWithoutEventError
        ELSE IF TruthyStr(params[1].event) THEN "true"
        ELSE "false"
  IN
  /\ burst' = NoBurst
  /\ emitted' = <<>>
  /\ delivered' = <<>>
  /\ listeners' = left
  /\ ret' = [Ret("clearEventListeners", "", ClearArg(params), val)
               EXCEPT !.hit = left # listeners]
  /\ UNCHANGED <<now, cache, timers, nextTimer, calls, invocations, history, scope,
                 handlers>>

----------------------------------------------------------------------------
Next ==
  \/ Tick
  \/ \E key \in scope.keys, value \in scope.values, ttl \in scope.ttls,
        sourceFn \in scope.sourceFns, autoRefetch \in scope.autoRefetches :
        Set(key, value, ttl, sourceFn, autoRefetch)
  \/ \E c \in calls, ok \in BOOLEAN : SetSettle(c, ok)
  \/ \E key \in scope.keys : Refetch(key)
  \/ \E c \in calls, ok \in BOOLEAN : RefetchSettle(c, ok)
  \/ \E key \in scope.keys : Get(key)
  \/ \E key \in scope.keys : Has(key)
  \/ \E key \in scope.keys : Delete(key)
  \/ Flush
  \/ \E t \in timers : TimerFire(t)
  \/ \E callback \in scope.callbacks : onExpiry(callback)
  \/ \E key \in scope.listenerKeys, callback \in scope.callbacks : onKeyExpiry(key, callback)
  \/ \E callback \in scope.callbacks : onRefetch(callback)
  \/ \E key \in scope.listenerKeys, callback \in scope.callbacks : onKeyRefetch(key, callback)
  \/ \E callback \in scope.callbacks : onRefetchFailure(callback)
  \/ \E key \in scope.listenerKeys, callback \in scope.callbacks : onKeyRefetchFailure(key, callback)
  \/ \E h \in handlers : HandlerSettle(h)
  \/ \E params \in scope.clears : clearEventListeners(params)

Spec == Init /\ [][Next]_vars

\* one key whose entries have a source function, with and without a ttl
LiveScope ==
  [name |-> "live", keys |-> {"k"}, listenerKeys |-> {}, callbacks |-> {}, maxListeners |-> 0,
   clears |-> {},
   values |-> {<<>>, <<"v1">>}, ttls |-> {<<>>, <<1>>},
   sourceFns |-> {<<"f">>}, autoRefetches |-> {<<>>, <<TRUE>>},
   maxTime |-> LiveMaxTime, maxTimers |-> LiveMaxTimers,
   maxInvocations |-> LiveMaxInvocations]

LiveInit ==
  /\ scope = LiveScope
  /\ now = 0
  /\ cache = <<>>
  /\ timers = {}
  /\ nextTimer = 1
  /\ calls = {}
  /\ invocations = [k \in Keys |-> 0]
  /\ emitted = <<>>
  /\ ret = [op |-> "init", key |-> "", arg |-> "", hit |-> FALSE, prior |-> <<>>,
            val |-> Undefined, source |-> <<>>]
  /\ burst = NoBurst
  /\ history = [k \in Keys |-> NoHistory]
  /\ listeners = <<>>
  /\ delivered = <<>>
  /\ handlers = {}

LiveNext ==
  \/ Tick
  \/ \E key \in scope.keys, value \in scope.values, ttl \in scope.ttls,
        sourceFn \in scope.sourceFns, autoRefetch \in scope.autoRefetches :
        Set(key, value, ttl, sourceFn, autoRefetch)
  \/ \E c \in calls, ok \in BOOLEAN : SetSettle(c, ok)
  \/ \E key \in scope.keys : Refetch(key)
  \/ \E c \in calls, ok \in BOOLEAN : RefetchSettle(c, ok)
  \/ \E key \in scope.keys : Get(key)
  \/ \E key \in scope.keys : Has(key)
  \/ \E key \in scope.keys : Delete(key)
  \/ Flush
  \/ \E t \in timers : TimerFire(t)

\* the promise of the n-th source function invocation for key k resolves or
\* rejects, and the call awaiting it resumes
SourceSettles(k, n) ==
  \E c \in calls, ok \in BOOLEAN :
    /\ c.key = k /\ c.inv = n
    /\ (SetSettle(c, ok) \/ RefetchSettle(c, ok))

\* every source function invocation that was started settles
LiveFairness ==
  \A k \in LiveScope.keys : \A n \in 1..LiveMaxInvocations : WF_vars(SourceSettles(k, n))

LiveSpec == LiveInit /\ [][LiveNext]_vars /\ LiveFairness

----------------------------------------------------------------------------
(* Claims *)

IsValue(v) == v \notin {Undefined, Pending, SourceFnError}

ValidationErrors == {EmptyKeyError, EmptyValueError, AutoRefetchError, NegativeTtlError}

\* C1: single-flight.  Of N >= 2 refetch(key) calls issued back-to-back on a
\* stored entry that has a source function and no invocation outstanding,
\* exactly one starts an invocation of the source function and the other N-1
\* return false, whatever ran on the key before.
C1_SingleFlight ==
  (burst.idle /\ burst.n >= 2) =>
    (burst.started = 1 /\ burst.falses = burst.n - 1)

\* C2: in every reachable state at most one source-function invocation is
\* outstanding per key.
C2_OneOutstandingPerKey ==
  \A k \in Keys : Cardinality(Outstanding(k)) <= 1

\* C3: right after a set call succeeded, has(key) returns true and get(key)
\* returns the serialized value the call stored.
C3_SetThenHasGet ==
  (ret.op = "set" /\ ret.val = "true") =>
    /\ HasResult(ret.key) = "true"
    /\ IsValue(GetResult(ret.key))
    /\ ret.arg # "" => GetResult(ret.key) = Stringify(ret.arg)

\* C4: an entry stored with a ttl (0 included) and without autoRefetch is
\* reported absent by has and get at every time now > updatedAt + ttl, and
\* present, with its value, at every time now <= updatedAt + ttl.
C4_TtlExpiry ==
  \A k \in DOMAIN cache :
    (cache[k].ttl # <<>> /\ ~TruthyBool(cache[k].autoRefetch)) =>
      IF now > cache[k].updateAt + cache[k].ttl[1]
      THEN HasResult(k) = "false" /\ GetResult(k) = Undefined
      ELSE HasResult(k) = "true" /\ GetResult(k) = cache[k].value

\* C5: once a get has removed an expired entry (one without source function or
\* with autoRefetch false), every later get and has of the key reports absence
\* until set is called on the key again.
C5_RemovedStaysAbsent ==
  \A k \in Keys :
    history[k].removed => (HasResult(k) = "false" /\ GetResult(k) = Undefined)

\* C6: a get of an entry that has a source function and autoRefetch=true never
\* returns the expired value, however it interleaves with the refetch of the
\* expiry timer (no other refetch is outstanding): the value it returns is the
\* value of an entry produced after the expiry, so it is not expired when get
\* returns.
C6_GetNeverReturnsExpired ==
  (/\ ret.op = "get" /\ IsValue(ret.val)
   /\ \A c \in calls : c.caller = "timer") =>
    /\ ret.key \in DOMAIN cache
    /\ cache[ret.key].value = ret.val
    /\ ~isExpired(cache[ret.key])

\* C7: auto-refetch is a standing policy.  For an entry set with ttl, source
\* function and autoRefetch=true, a get that detects an expiry (the first or a
\* later one) refetches instead of deleting: it never reports the key absent.
C7_StandingAutoRefetch ==
  [][\A k \in Keys :
       (history[k].standing /\ ret'.op = "get" /\ ret'.key = k /\ ret'.hit
          /\ emitted' # <<>>)
       => (k \in DOMAIN cache' /\ ret'.val # Undefined)]_vars

\* the step is a set call with a literal value that succeeded on a key that was
\* in the store
Overwrites(k) ==
  /\ ret'.op = "set" /\ ret'.key = k /\ ret'.val = "true" /\ ret'.arg # "" /\ ret'.hit
  /\ k \in DOMAIN cache /\ k \in DOMAIN cache'

C9_RejectedSetChangesNothing ==
  [][(ret'.op = "set" /\ ret'.val \in ValidationErrors) =>
       UNCHANGED <<cache, timers, nextTimer, calls, invocations>>]_vars

\* C10: when the source function of a set call without value fails, set raises
\* SourceFunctionError, the store is as it was before the call, and no expiry
\* action armed by the failed call is left pending.
C10_FailedSetLeavesNothing ==
  [][\A c \in calls :
       (c.op = "set" /\ c \notin calls' /\ ret'.op = "set" /\ ret'.val = SourceFnError)
       => /\ cache' = cache
          /\ \A t \in timers' : <<t.id>> # c.frame.timeout]_vars

----------------------------------------------------------------------------
(* Claims about refetch, has, delete, flush, the expiry timer and events.
   Where a claim states what a call returns and which callbacks it reaches, it
   is stated for the steps in which the callbacks reached return: what a
   callback throws propagates to the code that emitted the event. *)

\* the step is a call of refetch(k) by the client, up to its return or its await
RefetchCall(k) == ret'.op = "refetch" /\ ret'.key = k /\ ret'.val \in {"false", Pending}

\* C11: refetch(key) returns false, without raising, invoking a source function,
\* emitting an event or changing the store, when the key is not in the store,
\* when the entry has no source function, and when a refetch invocation for the
\* key is outstanding.
C11_RefetchRefusals ==
  [][\A k \in Keys :
       (/\ RefetchCall(k)
        /\ \/ k \notin DOMAIN cache
           \/ cache[k].sourceFn = <<>>
           \/ \E c \in calls : c.key = k /\ c.op = "refetch")
       => /\ ret'.val = "false"
          /\ emitted' = <<>>
          /\ delivered' = <<>>
          /\ UNCHANGED <<cache, calls, invocations, timers>>]_vars

\* the listeners of a kind that an event about key k is for: the global ones
\* and the ones scoped to k
For(event, k) ==
  {i \in 1..Len(listeners) :
     listeners[i].kind = event /\ listeners[i].key \in {<<>>, <<k>>}}

\* every listener an event of this kind about k is for was invoked exactly once
\* by the step, with the value v in the payload
OnceEach(event, k, v) ==
  \A i \in For(event, k) :
    /\ Cardinality({j \in 1..Len(delivered') : delivered'[j].pos = i}) = 1
    /\ \A j \in 1..Len(delivered') :
         delivered'[j].pos = i =>
           /\ delivered'[j].event.event = event
           /\ delivered'[j].event.key = k
           /\ delivered'[j].event.value = v

\* the step resumes the client's refetch call c after its source function
\* settled, and the entry is as that call left it when it suspended
RefetchResumes(c, ok) ==
  /\ c.op = "refetch" /\ c.caller = "user"
  /\ c \notin calls'
  /\ ret'.op = "refetch" /\ ret'.source = <<ok>>
  /\ c.key \in DOMAIN cache
  /\ cache[c.key] = SpreadFetching("true", c.frame)

C14_HasOnExpired ==
  [][\A k \in Keys :
       (/\ ret'.op = "has" /\ ret'.key = k
        /\ k \in DOMAIN cache /\ isExpired(cache[k])) =>
         /\ emitted' = <<EntryEvent(EXPIRE, k, cache[k])>>
         /\ UNCHANGED <<cache, calls, invocations, timers>>
         /\ ~EmitThrows(EXPIRE, k) =>
              /\ ret'.val = "false"
              /\ OnceEach(EXPIRE, k, cache[k].value)]_vars

\* C14 witness: has returned false for an expired entry that has a source
\* function and autoRefetch, a global and a scoped expire listener were called,
\* and the entry is still in the store
C14_Witness ==
  /\ ret.op = "has" /\ ret.val = "false" /\ ret.hit
  /\ ret.key \in DOMAIN cache
  /\ cache[ret.key].sourceFn # <<>> /\ TruthyBool(cache[ret.key].autoRefetch)
  /\ Len(delivered) = 2
  /\ delivered[1].to.key = <<>> /\ delivered[2].to.key = <<ret.key>>

\* the pending expiry actions for key k, apart from those armed by a set call
\* that is still awaiting its source function
Armed(k) ==
  {t \in timers : /\ t.key = k
                  /\ \A c \in calls : ~(c.op = "set" /\ c.frame.timeout = <<t.id>>)}

\* C15: delete(key) on an existing entry returns true, removes the entry and
\* cancels the expiry action armed for it, whatever ran on the key before: when
\* delete has returned true no expiry action for the key is left to emit an
\* expire event or to start a refetch.
C15_DeleteCancelsExpiry ==
  (ret.op = "delete" /\ ret.hit) =>
    /\ ret.val = "true"
    /\ ret.key \notin DOMAIN cache
    /\ Armed(ret.key) = {}

\* C16: delete(key) on a key that is not in the store returns false, does not
\* raise and leaves the store, the pending expiry actions and the listeners
\* unchanged; after any delete the key is not in the store, so delete applied
\* twice returns true then false and the second call changes nothing.
C16_DeleteAbsent ==
  [][/\ \A k \in Keys \cup {""} :
          (ret'.op = "delete" /\ ret'.key = k /\ k \notin DOMAIN cache) =>
            /\ ret'.val = "false"
            /\ UNCHANGED <<cache, timers, listeners, calls, invocations>>
     /\ ret'.op = "delete" => ret'.key \notin DOMAIN cache'
     /\ (ret.op = "delete" /\ ret'.op = "delete" /\ ret'.key = ret.key) =>
          (ret'.val = "false" /\ cache' = cache)]_vars

\* C16 witness: delete returned false for a key that is not in the store while
\* an expiry action was pending and a listener was registered
C16_Witness ==
  /\ ret.op = "delete" /\ ret.val = "false" /\ ~ret.hit
  /\ timers # {}
  /\ listeners # <<>>

\* C17: after flush() the store is empty and every expiry action armed before
\* the flush is cancelled, whatever ran before: when flush has returned no
\* expiry action is left to emit an expire event or to start a refetch.
C17_FlushCancelsAll ==
  (ret.op = "flush") =>
    /\ cache = <<>>
    /\ \A k \in Keys : HasResult(k) = "false" /\ GetResult(k) = Undefined
    /\ \A k \in Keys : Armed(k) = {}

\* C18: get(key) never raises the failure of a source function: it resolves to
\* the value or to undefined, also when the refetch it triggers fails.
C18_GetNeverRaises ==
  (ret.op = "get") => (ret.val # SourceFnError)

\* the step is the firing of the expiry action t
TimerFires(t) == t \in timers /\ t \notin timers' /\ ret'.op = "timer"

C20_EventScoping ==
  \A j \in 1..Len(delivered) :
    /\ delivered[j].to.kind = delivered[j].event.event
    /\ delivered[j].to.key \in {<<>>, <<delivered[j].event.key>>}

\* the step is a call of clearEventListeners with the argument params
Clears(params) ==
  ret'.op = "clearEventListeners" /\ ret'.arg = ClearArg(params)

\* C21: on every emission the global listeners of the event's kind are invoked
\* before the listeners of that kind scoped to the event's key, and within each
\* of the two groups in the order they were subscribed.
C21_EmissionOrder ==
  \A i, j \in 1..Len(delivered) :
    (/\ i < j
     /\ delivered[i].event = delivered[j].event
     /\ delivered[i].to.kind = delivered[i].event.event
     /\ delivered[j].to.kind = delivered[j].event.event) =>
      /\ ~(delivered[i].to.key # <<>> /\ delivered[j].to.key = <<>>)
      /\ (delivered[i].to.key = delivered[j].to.key) =>
           delivered[i].pos < delivered[j].pos

\* C21 witness: an emission reached a global listener and then a listener
\* scoped to the key that had been subscribed before the global one
C21_Witness ==
  /\ Len(delivered) = 2
  /\ delivered[1].event = delivered[2].event
  /\ delivered[1].to.kind = delivered[2].to.kind
  /\ delivered[1].to.key = <<>> /\ delivered[2].to.key = <<delivered[2].event.key>>
  /\ delivered[1].pos > delivered[2].pos

\* C22: clearEventListeners({event: kind}) removes every global and every
\* key-scoped listener of that kind, returns true and leaves every listener of
\* the other two kinds in place, for each of the three kinds.
C22_ClearByKind ==
  [][\A kind \in {EXPIRE, REFETCH, REFETCH_FAILURE} :
       Clears(<<[event |-> <<kind>>, key |-> <<>>]>>) =>
         /\ ret'.val = "true"
         /\ listeners' = SelectSeq(listeners, LAMBDA l : l.kind # kind)]_vars

\* C23: clearEventListeners({event: kind, key}) removes exactly the listeners
\* of that kind scoped to that key and returns true: the global listeners of
\* the kind, those of the kind scoped to other keys and all listeners of other
\* kinds stay registered.
C23_ClearByKindAndKey ==
  [][\A kind \in {EXPIRE, REFETCH, REFETCH_FAILURE}, k \in {"k", "failure"} :
       Clears(<<[event |-> <<kind>>, key |-> <<k>>]>>) =>
         /\ ret'.val = "true"
         /\ listeners' = SelectSeq(listeners, LAMBDA l : ~(l.kind = kind /\ l.key = <<k>>))]_vars

\* C24: clearEventListeners() removes every listener of every kind, returns
\* true and changes nothing else: entries, pending expiry actions and pending
\* calls stay; an expiry action that fires while no listener is registered
\* calls no listener and still starts the refetch of an autoRefetch entry.
C24_ClearAll ==
  [][/\ Clears(<<>>) =>
          /\ ret'.val = "true"
          /\ listeners' = <<>>
          /\ UNCHANGED <<now, cache, timers, nextTimer, calls, invocations, handlers>>
     /\ \A t \in timers :
          (TimerFires(t) /\ listeners = <<>>) =>
            /\ delivered' = <<>>
            /\ (t.refetches /\ ~RefetchRefuses(t.key)) =>
                 /\ invocations'[t.key] = invocations[t.key] + 1
                 /\ \E c \in calls' \ calls : c.caller = "timer" /\ c.key = t.key]_vars

\* C24 witness: clearEventListeners() has removed listeners while the expiry
\* action of a stored autoRefetch entry is pending
C24_Witness ==
  /\ ret.op = "clearEventListeners" /\ ret.arg = ClearArg(<<>>) /\ ret.hit
  /\ listeners = <<>>
  /\ \E t \in timers :
       /\ t.refetches
       /\ t.key \in DOMAIN cache /\ cache[t.key].timeout = <<t.id>>

\* C25: clearEventListeners with a key and no event fails with an error and
\* removes no listener; with a parameter object that names neither a key nor an
\* event (or only the empty key) it returns false and removes no listener.
C25_ClearKeyWithoutEvent ==
  [][/\ \A k \in {"k", "failure"} :
          Clears(<<[event |-> <<>>, key |-> <<k>>]>>) =>
            /\ ret'.val = KeyWithoutEventError
            /\ UNCHANGED listeners
     /\ \A key \in {<<>>, <<"">>} :
          Clears(<<[event |-> <<>>, key |-> key]>>) =>
            /\ ret'.val = "false"
            /\ UNCHANGED listeners]_vars

\* C25 witness: a call with a key and no event has failed while listeners were
\* registered
C25_Witness ==
  /\ ret.op = "clearEventListeners"
  /\ ret.arg = ClearArg(<<[event |-> <<>>, key |-> <<"failure">>]>>)
  /\ ret.val = KeyWithoutEventError
  /\ Len(listeners) = ClearMaxListeners

\* C26: event handlers are awaited: when get, has or refetch returns, every
\* handler invoked for the events the call emitted, async handlers included,
\* has completed.
C26_HandlersAwaited ==
  (ret.op \in {"get", "has", "refetch"} /\ ret.val # Pending) =>
    Begun(delivered) \cap handlers = {}

\* the step resumes the refetch call c after its source function settled
Settles(c) == c.op = "refetch" /\ c \in calls /\ c \notin calls' /\ ret'.source # <<>>

\* C27: no resurrection.  When delete(key) or flush() has removed an entry while
\* a refetch invocation for the key is outstanding, the completion of the
\* invocation, successful or failed, writes nothing under the key: get and has
\* keep reporting absence.
C27_NoResurrection ==
  [][\A c \in calls :
       (/\ Settles(c)
        /\ c.key \notin DOMAIN cache
        /\ \/ ret.op = "delete" /\ ret.key = c.key /\ ret.hit
           \/ ret.op = "flush") =>
         /\ c.key \notin DOMAIN cache'
         /\ HasResult(c.key)' = "false"
         /\ GetResult(c.key)' = Undefined]_vars

\* C28: no lost write.  When a set of the key has completed while a refetch
\* invocation started on the previous entry is outstanding, the entry still
\* holds the value, ttl, source function and timestamps that set wrote after
\* the invocation completes, successfully or with a failure.
C28_NoLostWrite ==
  [][\A c \in calls :
       (/\ Settles(c)
        /\ ret.op = "set" /\ ret.key = c.key /\ ret.val = "true"
        /\ c.key \in DOMAIN cache) =>
         /\ c.key \in DOMAIN cache'
         /\ cache'[c.key].value = cache[c.key].value
         /\ cache'[c.key].ttl = cache[c.key].ttl
         /\ cache'[c.key].sourceFn = cache[c.key].sourceFn
         /\ cache'[c.key].createAt = cache[c.key].createAt
         /\ cache'[c.key].updateAt = cache[c.key].updateAt]_vars

\* C29: in every reachable state at most one expiry action is pending per key,
\* and an expiry action whose set has returned is the one the entry stored
\* under its key refers to.
C29_OneTimerPerKey ==
  \A k \in Keys \cup {""} :
    /\ Cardinality({t \in timers : t.key = k}) <= 1
    /\ \A t \in Armed(k) : k \in DOMAIN cache /\ cache[k].timeout = <<t.id>>

\* C30: in every reachable state every stored entry has a ttl that is not
\* negative, if it has one, and has a ttl if its autoRefetch is true.
C30_EntryInvariants ==
  \A k \in DOMAIN cache :
    /\ cache[k].ttl # <<>> => cache[k].ttl[1] >= 0
    /\ TruthyBool(cache[k].autoRefetch) => cache[k].ttl # <<>>

\* C30 witness: set has refused an argument, a negative ttl or autoRefetch
\* without a ttl, for a key that holds an entry with autoRefetch and a ttl
C30_Witness ==
  /\ ret.op = "set" /\ ret.val \in {NegativeTtlError, AutoRefetchError}
  /\ ret.key \in DOMAIN cache
  /\ TruthyBool(cache[ret.key].autoRefetch)
  /\ cache[ret.key].ttl # <<>>

\* C31: the updateAt of the entry stored under a key never decreases from one
\* state to the next while the key stays in the store, and createAt <= updateAt
\* holds for every stored entry.
C31_TimestampsMonotone ==
  [][/\ \A k \in (DOMAIN cache) \cap (DOMAIN cache') :
          cache'[k].updateAt >= cache[k].updateAt
     /\ \A k \in DOMAIN cache' : cache'[k].createAt <= cache'[k].updateAt]_vars

\* C33: a successful refetch changes only value, updateAt and fetching of the
\* entry: its ttl, source function, autoRefetch, createAt and the handle of its
\* pending expiry action are after the refetch what they were before it.
C33_RefetchFrame ==
  [][\A c \in calls :
       (RefetchResumes(c, TRUE) /\ ret'.val = "true") =>
         /\ cache'[c.key].ttl = cache[c.key].ttl
         /\ cache'[c.key].sourceFn = cache[c.key].sourceFn
         /\ cache'[c.key].createAt = cache[c.key].createAt
         /\ cache'[c.key].autoRefetch = cache[c.key].autoRefetch
         /\ cache'[c.key].timeout = cache[c.key].timeout]_vars

\* C34: the payload of every expire event, emitted by get, by has or by an
\* expiry timer, carries the key and the value, ttl, createAt and updateAt of
\* the entry stored under the key when the event is emitted, whenever an entry
\* is stored under it.
C34_ExpirePayload ==
  [][\A j \in 1..Len(emitted') :
       (emitted'[j].event = EXPIRE /\ emitted'[j].key \in DOMAIN cache) =>
         emitted'[j] = EntryEvent(EXPIRE, emitted'[j].key, cache[emitted'[j].key])]_vars

\* C35: on a successful refetch the store is written before the event is
\* emitted: while a callback is called with a refetch event, the entry stored
\* under the key holds the value and updateAt of the payload and its fetching
\* flag is clear.
C35_WriteBeforeEmit ==
  \A j \in 1..Len(delivered) :
    delivered[j].event.event = REFETCH =>
      /\ delivered[j].saw # <<>>
      /\ delivered[j].saw[1].value = delivered[j].event.value
      /\ delivered[j].saw[1].updateAt = delivered[j].event.updateAt
      /\ delivered[j].saw[1].fetching # "true"

\* C39: no spurious expiry.  Whenever an expire event is emitted for a key, an
\* entry is stored under the key and it is due: now >= updateAt + ttl.
C39_NoSpuriousExpiry ==
  [][\A j \in 1..Len(emitted') :
       emitted'[j].event = EXPIRE =>
         /\ emitted'[j].key \in DOMAIN cache
         /\ cache[emitted'[j].key].ttl # <<>>
         /\ now >= cache[emitted'[j].key].updateAt + cache[emitted'[j].key].ttl[1]]_vars

\* C40: the outcome of refetch depends on the source function alone: when the
\* source function returned a value, refetch stores it, returns true and emits
\* no refetch-failure event, also when a refetch listener throws.
C40_ListenerCannotFailRefetch ==
  [][\A c \in calls :
       RefetchResumes(c, TRUE) =>
         /\ ret'.val = "true"
         /\ cache'[c.key].value = Stringify(SourceValue(c.inv))
         /\ \A j \in 1..Len(emitted') : emitted'[j].event # REFETCH_FAILURE]_vars

\* C36: a refetch triggered by a detected expiry, by get or by an expiry timer,
\* is started only after the expire event for the key has been emitted by the
\* same detection and its callbacks have returned; the refetch and
\* refetch-failure events of that refetch therefore follow the expire event.
C36_ExpireBeforeRefetch ==
  [][\A c \in calls' \ calls :
       (c.op = "refetch" /\ c.caller \in {"get", "timer"}) =>
         /\ ret'.op = c.caller
         /\ emitted' # <<>>
         /\ emitted'[1].event = EXPIRE /\ emitted'[1].key = c.key
         /\ ~EmitThrows(EXPIRE, c.key)
         /\ \A j \in 1..Len(emitted') : emitted'[j].event = EXPIRE]_vars

\* C36 witness: an expiry timer has called an expire listener and started a
\* refetch that has not settled
C36_Witness ==
  /\ ret.op = "timer"
  /\ \E c \in calls : c.op = "refetch" /\ c.caller = "timer" /\ c.key = ret.key
  /\ Len(delivered) >= 1
  /\ delivered[1].event.event = EXPIRE /\ delivered[1].event.key = ret.key

C38_TimerOnlyEmits ==
  [][\A t \in timers :
       (/\ TimerFires(t) /\ ~t.refetches
        /\ t.key \in DOMAIN cache /\ cache[t.key].timeout = <<t.id>>) =>
         /\ Len(emitted') = 1 /\ emitted'[1].event = EXPIRE
         /\ UNCHANGED <<cache, calls, invocations>>
         /\ (now > cache[t.key].updateAt + cache[t.key].ttl[1]) =>
              HasResult(t.key)' = "false"]_vars

\* refetch call number n for key k has not returned
RefetchPending(k, n) == \E c \in calls : c.op = "refetch" /\ c.key = k /\ c.inv = n

\* the entry stored under k has its fetching flag set
Fetching(k) == k \in DOMAIN cache /\ cache[k].fetching = "true"

\* C32: provided every started source function invocation settles, every
\* refetch call eventually returns and an entry whose fetching flag is set
\* eventually has it clear; the flag is set only while a refetch of the key is
\* running, and when a refetch call returns, by success or by failure, the entry
\* is stored with the flag clear, so that the next refetch of the key is not
\* refused and starts a new invocation.
C32_RefetchStateMachine ==
  /\ \A k \in LiveScope.keys : \A n \in 1..LiveMaxInvocations :
       RefetchPending(k, n) ~> ~RefetchPending(k, n)
  /\ \A k \in LiveScope.keys : Fetching(k) ~> ~Fetching(k)
  /\ \A k \in LiveScope.keys :
       [](Fetching(k) => \E c \in calls : c.op = "refetch" /\ c.key = k)
  /\ [][\A c \in calls \ calls' :
          c.op = "refetch" =>
            /\ ret'.source # <<>>
            /\ c.key \in DOMAIN cache'
            /\ ~Fetching(c.key)'
            /\ ~RefetchRefuses(c.key)']_vars

\* C32 witness: a refetch call that ran with the fetching flag set has returned,
\* the entry is stored with the flag clear, and a refetch of it would not refuse
C32_Witness ==
  /\ ret.op = "refetch" /\ ret.source # <<>>
  /\ calls = {}
  /\ invocations[ret.key] >= 1
  /\ ret.key \in DOMAIN cache
  /\ cache[ret.key].fetching = Undefined
  /\ ~RefetchRefuses(ret.key)
====
